---- MODULE Spec2Model ----
(***************************************************************************)
(* The SoundCloud playlist plugin of MPD                                   *)
(* (src/playlist/plugins/SoundCloudPlaylistPlugin.cxx): the YAJL callbacks *)
(* that extract tracks from a JSON document, the feed loop that reads the  *)
(* document in chunks, and soundcloud_open_uri that returns the songs.     *)
(*                                                                         *)
(* Strings are sequences of one-character strings, so that prefix tests    *)
(* and concatenation are computed, not assumed.                            *)
(***************************************************************************)
EXTENDS Integers, Sequences, FiniteSets, TLC

(***************************************************************************)
(* Bounds of the model.                                                    *)
(***************************************************************************)
\* number of tokenizer events of one document
MaxEvents == 8
\* number of containers (objects and arrays) open at the same time
MaxDepth == 2

(***************************************************************************)
(* Program constants.                                                      *)
(***************************************************************************)
\* sizeof(buffer) in soundcloud_parse_json
BufferSize == 4096

\* SoundCloudJsonData::Key, in declaration order
DURATION == 0
TITLE == 1
STREAM_URL == 2
\* Key::OTHER (OTHER is a reserved word of TLA+)
Key_OTHER == 3
Keys == {DURATION, TITLE, STREAM_URL, Key_OTHER}

\* key_str[], without its nullptr terminator (the end of the sequence)
key_str ==
    << <<"d","u","r","a","t","i","o","n">>,
       <<"t","i","t","l","e">>,
       <<"s","t","r","e","a","m","_","u","r","l">> >>

\* the literal "?client_id=" of handle_end_map
ClientIdParam == <<"?","c","l","i","e","n","t","_","i","d","=">>

(***************************************************************************)
(* Inputs: what a document and the configuration may hold.                 *)
(***************************************************************************)
NoValue == "none"

\* an optional value: None, or Some(x) whose value is Some(x)[1]
None == <<>>
Some(x) == <<x>>

\* map key names a document uses: the three table entries, the empty key,
\* a proper prefix of an entry, an extension of an entry
KeyNames ==
    { key_str[1], key_str[2], key_str[3],
      <<>>,
      <<"s">>,
      <<"t","i","t","l","e","s">> }

\* string scalars of a document; one is empty, one holds characters a URL
\* encoder would change
StringVals == { <<"u","&">>, <<>> }

\* integer scalars of a document
IntVals == { -3, 5 }

\* what the uninitialized member "long duration" may hold
UninitLong == { 0, 9 }

\* soundcloud_config.apikey: soundcloud_init refuses an empty key
ApiKeys == { <<"K","/","1">> }

\* the prefixes that soundcloud_open_uri tests, in the order of its tests
KindPrefixes ==
    << <<"t","r","a","c","k","/">>,
       <<"p","l","a","y","l","i","s","t","/">>,
       <<"u","s","e","r","/">>,
       <<"s","e","a","r","c","h","/">>,
       <<"u","r","l","/">> >>

\* what follows the kind in a request
Rests == { <<"7">>, <<"h","t","t","p","s",":","/","/","x">> }

\* requests, after "soundcloud://": each kind with each rest, and requests
\* of no kind: the empty one, a kind without its slash, a kind in plural
Uris ==
    { KindPrefixes[k] \o r : k \in 1..Len(KindPrefixes), r \in Rests }
        \cup { <<>>,
               <<"t","r","a","c","k">>,
               <<"t","r","a","c","k","s","/","7">> }

\* paths inside an archive
Paths == { "a.mp3", "d/b.ogg" }

\* what an archive holds at a path: no entry; an entry that cannot be
\* opened (OpenStream throws a std::exception, or an exception of another
\* type); an entry with tags; an entry without tags; an entry that opens
\* and fails while it is scanned
EntryKinds ==
    { "absent", "unreadable", "foreign", "tagged", "untagged", "damaged" }

\* no call of tag_archive_scan was made
NoCall == [overload |-> "none", path |-> "none"]
NoEnd == [kind |-> "none"]

\* the values of key and duration at construction are not recorded
NoStart == [key |-> Key_OTHER, duration |-> 0]

\* the tokenizer before the first byte: it expects a value, no container is
\* open, it is in no token, it has seen no byte
NewHandle ==
    [ st |-> "value", stk |-> <<>>, tk |-> "none", txt |-> <<>>,
      seen |-> <<>> ]

\* a string token of a document
Quoted(str) == <<"\"">> \o str \o <<"\"">>

\* "stream_url":"u"
UrlMember(str) == Quoted(key_str[3]) \o <<":">> \o Quoted(str)

\* documents served byte by byte:
\*   {"stream_url":"u","duration":12}
\*   {"stream_url":"u"}
\*   [{"stream_url":"u","duration":7},{"stream_url":"v"}]
\*   {"stream_url":"u"                (the end is missing)
\*   {"title":x}                      (not JSON)
\*   "uv"                             (no object)
Docs ==
    { <<"{">> \o UrlMember(<<"u">>) \o <<",">> \o Quoted(key_str[1])
          \o <<":", "1", "2", "}">>,
      <<"{">> \o UrlMember(<<"u">>) \o <<"}">>,
      <<"[", "{">> \o UrlMember(<<"u">>) \o <<",">> \o Quoted(key_str[1])
          \o <<":", "7", "}", ",", "{">> \o UrlMember(<<"v">>)
          \o <<"}", "]">>,
      <<"{">> \o UrlMember(<<"u">>),
      <<"{">> \o Quoted(key_str[2]) \o <<":", "x", "}">>,
      Quoted(<<"u", "v">>) }

\* the length of the longest document
MaxDocLen ==
    CHOOSE n \in { Len(x) : x \in Docs } : \A x \in Docs : Len(x) <= n

VARIABLES
    \* soundcloud_config
    apikey,
    \* SoundCloudJsonData
    key, stream_url, duration, title, got_url, songs,
    \* soundcloud_parse_json / soundcloud_open_uri; uri is the request
    \* after "soundcloud://", url the URL built from it, both optional values (u in
    \* soundcloud_open_uri, url in soundcloud_parse_json)
    pc, done, nbytes, result, uri, url,
    \* the tokenizer (Yajl::Handle): open containers, top-level value
    \* complete, what the last callback returned (0 cancels the parse)
    stack, docDone, rc,
    \* history: the last event delivered, the number of events, the number
    \* of CompleteParse calls, the stream_url values of the closed tracks,
    \* whether an exception left soundcloud_open_uri, the number of calls
    \* of soundcloud_parse_json, the number of strings received while the
    \* current field was STREAM_URL, the number of object-end events
    ev, nev, completes, tracks, raised, attempts, captures, ends,
    \* the byte source of soundcloud_parse_json: the bytes of the document,
    \* the number of them read, the bytes of buffer[] that the last Read
    \* filled, the state of the tokenizer between two calls of Parse, the
    \* values key and duration had when data was constructed (recorded
    \* where two feeds of one document are compared)
    doc, pos, buffer, handle, start,
    \* tag_archive_scan: the entries of the archive, the call (overload and
    \* path), how the call ended
    archive, a_call, a_end

ctx == <<key, stream_url, duration, title, got_url, songs>>
loop == <<pc, done, nbytes, result, uri, url>>
tok == <<stack, docDone, rc>>
hist ==
    <<ev, nev, completes, tracks, raised, attempts, captures, ends>>
feed == <<doc, pos, buffer, handle, start>>
arch == <<archive, a_call, a_end>>
vars == <<apikey, ctx, loop, tok, hist, feed, arch>>

(***************************************************************************)
(* util/StringCompare.hxx: does haystack start with needle                 *)
(***************************************************************************)
StringStartsWith(haystack, needle) ==
    /\ Len(needle) <= Len(haystack)
    /\ SubSeq(haystack, 1, Len(needle)) = needle

\* SignedSongTime::FromMS: the representation is a signed 32-bit integer.
\* Every integer of this model lies in -2^31 .. 2^31 - 1, where the
\* conversion from long keeps the value and its sign.
FromMS(ms) == ms

(***************************************************************************)
(* handle_mapkey: the index of the first table entry that starts with the  *)
(* key name, or the index of the terminator.                               *)
(***************************************************************************)
RECURSIVE FindKey(_, _)
FindKey(i, name) ==
    IF i > Len(key_str) THEN i
    ELSE IF StringStartsWith(key_str[i], name) THEN i
    ELSE FindKey(i + 1, name)

KeyOf(name) == FindKey(1, name) - 1

handle_mapkey(name) ==
    /\ key' = KeyOf(name)
    /\ rc' = 1
    /\ UNCHANGED <<stream_url, duration, title, got_url, songs>>

\* mutant: the integer is stored whatever the current field is
handle_integer_AnyKey(intval) ==
    /\ duration' = intval
    /\ rc' = 1
    /\ UNCHANGED <<key, stream_url, title, got_url, songs>>

handle_integer(intval) ==
    /\ duration' = IF key = DURATION THEN intval ELSE duration
    /\ rc' = 1
    /\ UNCHANGED <<key, stream_url, title, got_url, songs>>

\* mutant: a string under a key that is not a field cancels the parse
handle_string_Cancels(stringval) ==
    /\ title' = IF key = TITLE THEN stringval ELSE title
    /\ stream_url' = IF key = STREAM_URL THEN stringval ELSE stream_url
    /\ got_url' = IF key = STREAM_URL THEN 1 ELSE got_url
    /\ rc' = IF key = Key_OTHER THEN 0 ELSE 1
    /\ UNCHANGED <<key, duration, songs>>

handle_string(stringval) ==
    /\ title' = IF key = TITLE THEN stringval ELSE title
    /\ stream_url' = IF key = STREAM_URL THEN stringval ELSE stream_url
    /\ got_url' = IF key = STREAM_URL THEN 1 ELSE got_url
    /\ rc' = 1
    /\ UNCHANGED <<key, duration, songs>>

\* mutant: an object start is not counted
handle_start_map_NoCount ==
    /\ rc' = 1
    /\ UNCHANGED <<key, stream_url, duration, title, got_url, songs>>

handle_start_map ==
    /\ got_url' = IF got_url > 0 THEN got_url + 1 ELSE got_url
    /\ rc' = 1
    /\ UNCHANGED <<key, stream_url, duration, title, songs>>

\* TagBuilder::SetDuration, AddItem(TAG_NAME), Commit and the DetachedSong
Song(u, d, t) ==
    [ uri |-> u,
      duration |-> FromMS(d),
      name |-> IF t # <<>> THEN <<t>> ELSE <<>> ]

\* mutant: the test got_url == 0 is missing
handle_end_map_NoZeroCheck ==
    IF got_url > 1
    THEN /\ got_url' = got_url - 1
         /\ rc' = 1
         /\ UNCHANGED <<key, stream_url, duration, title, songs>>
    ELSE /\ got_url' = 0
         /\ rc' = 1
         /\ songs' = <<Song(stream_url \o ClientIdParam \o apikey,
                            duration, title)>> \o songs
         /\ UNCHANGED <<key, stream_url, duration, title>>

\* mutant: captureDepth is lowered without the test got_url == 0
handle_end_map_Decrement ==
    IF got_url = 1
    THEN /\ got_url' = 0
         /\ rc' = 1
         /\ songs' = <<Song(stream_url \o ClientIdParam \o apikey,
                            duration, title)>> \o songs
         /\ UNCHANGED <<key, stream_url, duration, title>>
    ELSE /\ got_url' = got_url - 1
         /\ rc' = 1
         /\ UNCHANGED <<key, stream_url, duration, title, songs>>

\* mutant: captureDepth stays 1 when the record is pushed
handle_end_map_NoReset ==
    IF got_url > 1
    THEN /\ got_url' = got_url - 1
         /\ rc' = 1
         /\ UNCHANGED <<key, stream_url, duration, title, songs>>
    ELSE IF got_url = 0
    THEN /\ rc' = 1
         /\ UNCHANGED <<key, stream_url, duration, title, got_url, songs>>
    ELSE /\ rc' = 1
         /\ songs' = <<Song(stream_url \o ClientIdParam \o apikey,
                            duration, title)>> \o songs
         /\ UNCHANGED <<key, stream_url, duration, title, got_url>>

\* mutant: the credential is appended with "&", as soundcloud_resolve does
handle_end_map_Ampersand ==
    IF got_url > 1
    THEN /\ got_url' = got_url - 1
         /\ rc' = 1
         /\ UNCHANGED <<key, stream_url, duration, title, songs>>
    ELSE IF got_url = 0
    THEN /\ rc' = 1
         /\ UNCHANGED <<key, stream_url, duration, title, got_url, songs>>
    ELSE /\ got_url' = 0
         /\ rc' = 1
         /\ songs' = <<Song(stream_url \o <<"&">> \o Tail(ClientIdParam)
                                       \o apikey,
                            duration, title)>> \o songs
         /\ UNCHANGED <<key, stream_url, duration, title>>

handle_end_map ==
    IF got_url > 1
    THEN /\ got_url' = got_url - 1
         /\ rc' = 1
         /\ UNCHANGED <<key, stream_url, duration, title, songs>>
    ELSE IF got_url = 0
    THEN /\ rc' = 1
         /\ UNCHANGED <<key, stream_url, duration, title, got_url, songs>>
    ELSE /\ got_url' = 0
         /\ rc' = 1
         /\ songs' = <<Song(stream_url \o ClientIdParam \o apikey,
                            duration, title)>> \o songs
         /\ UNCHANGED <<key, stream_url, duration, title>>

(***************************************************************************)
(* The tokenizer.  The document is generated event by event; stack holds   *)
(* the open containers, innermost last.  A frame of an object records      *)
(* what the document has shown of that object so far:                      *)
(*   curKey  the key whose value is awaited (NoValue: a key or } is next)  *)
(*   hasUrl, hasDur, hasTtl  a key named exactly stream_url, duration,     *)
(*           title occurred in the object or in an object nested in it     *)
(*   xurl    the last string that is the value of the object's own key     *)
(*           named exactly stream_url                                      *)
(*   own     the last scalars delivered in the object, outside its nested  *)
(*           objects, while the current field was StreamReference (a       *)
(*           string), Title (a string), Duration (an integer)              *)
(*   nested  an object opened inside this one after own.url was delivered  *)
(*   pure    no key of an object nested in this one was classified         *)
(*           Duration, Title or StreamReference                            *)
(***************************************************************************)
NewMap ==
    [ kind |-> "map", curKey |-> NoValue,
      hasUrl |-> FALSE, hasDur |-> FALSE, hasTtl |-> FALSE,
      xurl |-> None,
      own |-> [url |-> None, title |-> None, duration |-> None],
      nested |-> FALSE, pure |-> TRUE ]

NewArray == [ kind |-> "array" ]

Top == stack[Len(stack)]

\* index of the innermost open object, 0 when no object is open
InnerMap(stk) ==
    LET S == { i \in 1..Len(stk) : stk[i].kind = "map" }
    IN IF S = {} THEN 0 ELSE CHOOSE i \in S : \A j \in S : j <= i

\* a value is expected next
CanValue ==
    /\ pc = "parse"
    /\ nev < MaxEvents
    /\ rc # 0
    /\ ~docDone
    /\ IF stack = <<>> THEN TRUE
       ELSE IF Top.kind = "array" THEN TRUE
       ELSE Top.curKey # NoValue

\* a value of the container on top of stk is complete
AfterValue(stk) ==
    IF stk # <<>> /\ stk[Len(stk)].kind = "map"
    THEN [stk EXCEPT ![Len(stk)].curKey = NoValue]
    ELSE stk

NoteKey(stk, name) ==
    [ i \in 1..Len(stk) |->
        IF stk[i].kind # "map" THEN stk[i]
        ELSE [ stk[i] EXCEPT
                 !.hasUrl = @ \/ name = key_str[3],
                 !.hasDur = @ \/ name = key_str[1],
                 !.hasTtl = @ \/ name = key_str[2],
                 !.pure = @ /\ (i = Len(stk) \/ KeyOf(name) = Key_OTHER),
                 !.curKey = IF i = Len(stk) THEN name ELSE @ ] ]

NoteString(stk, s) ==
    LET m == InnerMap(stk)
    IN [ i \in 1..Len(stk) |->
           IF i # m THEN stk[i]
           ELSE [ stk[i] EXCEPT
                    !.xurl = IF m = Len(stk) /\ stk[i].curKey = key_str[3]
                             THEN Some(s) ELSE @,
                    !.own.url = IF key = STREAM_URL THEN Some(s) ELSE @,
                    !.own.title = IF key = TITLE THEN Some(s) ELSE @,
                    !.nested = IF key = STREAM_URL THEN FALSE ELSE @ ] ]

NoteInteger(stk, v) ==
    LET m == InnerMap(stk)
    IN [ i \in 1..Len(stk) |->
           IF i # m THEN stk[i]
           ELSE [ stk[i] EXCEPT
                    !.own.duration = IF key = DURATION THEN Some(v) ELSE @ ] ]

NoteStartMap(stk) ==
    [ i \in 1..Len(stk) |->
        IF stk[i].kind # "map" THEN stk[i]
        ELSE [ stk[i] EXCEPT !.nested = @ \/ stk[i].own.url # None ] ]

Pop(stk) == SubSeq(stk, 1, Len(stk) - 1)

Event(type) ==
    /\ ev' = [type |-> type]
    /\ nev' = nev + 1
    /\ captures' = IF type = "string" /\ key = STREAM_URL
                   THEN captures + 1 ELSE captures
    /\ UNCHANGED <<completes, tracks, raised, attempts, ends>>

\* yajl_integer
Integer(v) ==
    /\ CanValue
    /\ handle_integer(v)
    /\ stack' = AfterValue(NoteInteger(stack, v))
    /\ docDone' = (stack = <<>>)
    /\ Event("integer")
    /\ UNCHANGED <<arch, feed, apikey, loop>>

\* yajl_string
String(s) ==
    /\ CanValue
    /\ handle_string(s)
    /\ stack' = AfterValue(NoteString(stack, s))
    /\ docDone' = (stack = <<>>)
    /\ Event("string")
    /\ UNCHANGED <<arch, feed, apikey, loop>>

\* yajl_null, yajl_boolean, yajl_double, yajl_number: no callback
OtherScalar ==
    /\ CanValue
    /\ stack' = AfterValue(stack)
    /\ docDone' = (stack = <<>>)
    /\ Event("other")
    /\ UNCHANGED <<arch, feed, apikey, ctx, loop, rc>>

\* yajl_start_map
StartMap ==
    /\ CanValue
    /\ Len(stack) < MaxDepth
    /\ handle_start_map
    /\ stack' = Append(NoteStartMap(stack), NewMap)
    /\ Event("start_map")
    /\ UNCHANGED <<arch, feed, apikey, loop, docDone>>

\* yajl_map_key
MapKey(name) ==
    /\ pc = "parse"
    /\ nev < MaxEvents
    /\ rc # 0
    /\ stack # <<>>
    /\ Top.kind = "map"
    /\ Top.curKey = NoValue
    /\ handle_mapkey(name)
    /\ stack' = NoteKey(stack, name)
    /\ Event("map_key")
    /\ UNCHANGED <<arch, feed, apikey, loop, docDone>>

\* yajl_end_map
EndMap ==
    /\ pc = "parse"
    /\ nev < MaxEvents
    /\ rc # 0
    /\ stack # <<>>
    /\ Top.kind = "map"
    /\ Top.curKey = NoValue
    /\ handle_end_map
    /\ stack' = AfterValue(Pop(stack))
    /\ docDone' = (Len(stack) = 1)
    /\ ev' = [type |-> "end_map", frame |-> Top]
    /\ nev' = nev + 1
    /\ tracks' = IF Top.xurl # None THEN Append(tracks, Top.xurl[1])
                  ELSE tracks
    /\ ends' = ends + 1
    /\ UNCHANGED <<arch, feed, apikey, loop, completes, raised, attempts, captures>>

\* yajl_start_array: no callback
StartArray ==
    /\ CanValue
    /\ Len(stack) < MaxDepth
    /\ stack' = Append(stack, NewArray)
    /\ Event("start_array")
    /\ UNCHANGED <<arch, feed, apikey, ctx, loop, docDone, rc>>

\* yajl_end_array: no callback
EndArray ==
    /\ pc = "parse"
    /\ nev < MaxEvents
    /\ rc # 0
    /\ stack # <<>>
    /\ Top.kind = "array"
    /\ stack' = AfterValue(Pop(stack))
    /\ docDone' = (Len(stack) = 1)
    /\ Event("end_array")
    /\ UNCHANGED <<arch, feed, apikey, ctx, loop, rc>>

(***************************************************************************)
(* soundcloud_open_uri and soundcloud_parse_json                           *)
(***************************************************************************)
\* what strncmp(uri, prefix, strlen(prefix)) == 0 tests
HasPrefix(str, prefix) == StringStartsWith(str, prefix)

\* the rest of the request after a prefix
After(str, prefix) == SubSeq(str, Len(prefix) + 1, Len(str))

\* soundcloud_resolve: the resolver URL of a page URL or path.  The string
\* literals of the code are single elements of the sequence.
soundcloud_resolve(page) ==
    LET pu == IF StringStartsWith(page, <<"h","t","t","p","s",":","/","/">>)
              THEN page
              ELSE IF StringStartsWith(page,
                          <<"s","o","u","n","d","c","l","o","u","d",
                            ".","c","o","m">>)
              THEN <<"https://">> \o page
              ELSE <<"https://soundcloud.com/">> \o page
    IN <<"https://api.soundcloud.com/resolve.json?url=">> \o pu
           \o <<"&client_id=">> \o apikey

\* the if/else-if chain of soundcloud_open_uri: the URL to fetch, None for
\* the null pointer
ApiUrl(str) ==
    IF HasPrefix(str, KindPrefixes[1])
    THEN Some(<<"https://api.soundcloud.com/tracks/">>
                  \o After(str, KindPrefixes[1])
                  \o <<".json?client_id=">> \o apikey)
    ELSE IF HasPrefix(str, KindPrefixes[2])
    THEN Some(<<"https://api.soundcloud.com/playlists/">>
                  \o After(str, KindPrefixes[2])
                  \o <<".json?client_id=">> \o apikey)
    ELSE IF HasPrefix(str, KindPrefixes[3])
    THEN Some(<<"https://api.soundcloud.com/users/">>
                  \o After(str, KindPrefixes[3])
                  \o <<"/tracks.json?client_id=">> \o apikey)
    ELSE IF HasPrefix(str, KindPrefixes[4])
    THEN Some(<<"https://api.soundcloud.com/tracks.json?q=">>
                  \o After(str, KindPrefixes[4])
                  \o <<"&client_id=">> \o apikey)
    ELSE IF HasPrefix(str, KindPrefixes[5])
    THEN Some(soundcloud_resolve(After(str, KindPrefixes[5])))
    ELSE None

\* mutant: a request of no known kind is fetched as a page of the site
OpenUri_ResolveUnknown(str) ==
    /\ pc = "uri"
    /\ uri' = Some(str)
    /\ url' = IF ApiUrl(str) = None THEN Some(soundcloud_resolve(str))
               ELSE ApiUrl(str)
    /\ pc' = IF url' = None THEN "null" ELSE "open"
    /\ UNCHANGED <<arch, feed, apikey, ctx, done, nbytes, result, tok, hist>>

\* soundcloud_open_uri up to the call of soundcloud_parse_json
OpenUri(str) ==
    /\ pc = "uri"
    /\ uri' = Some(str)
    /\ url' = ApiUrl(str)
    /\ pc' = IF url' = None THEN "null" ELSE "open"
    /\ UNCHANGED <<arch, feed, apikey, ctx, done, nbytes, result, tok, hist>>

\* soundcloud_parse_json is called and InputStream::OpenReady returns a
\* stream; uri and url are not read again
OpenReady ==
    /\ pc = "open"
    /\ pc' = "read"
    /\ done' = FALSE
    /\ attempts' = attempts + 1
    /\ uri' = None
    /\ url' = None
    /\ UNCHANGED <<arch, feed, apikey, ctx, nbytes, result, tok, ev, nev, completes,
                   tracks, raised, captures, ends>>

\* soundcloud_parse_json is called and InputStream::OpenReady throws
OpenThrows ==
    /\ pc = "open"
    /\ pc' = "failed"
    /\ raised' = TRUE
    /\ attempts' = attempts + 1
    /\ uri' = None
    /\ url' = None
    /\ UNCHANGED <<arch, feed, apikey, ctx, done, nbytes, result, tok, ev, nev, completes,
                   tracks, captures, ends>>

\* mutant: the end of the stream is not noticed
LoopStep_NeverDone(n) ==
    /\ nbytes' = n
    /\ done' = FALSE
    /\ pc' = IF done' THEN "complete" ELSE "parse"

\* one pass of the loop body after InputStream::Read returned n:
\* if (nbytes == 0) done = true; then CompleteParse or Parse is called
LoopStep(n) ==
    /\ nbytes' = n
    /\ done' = (n = 0)
    /\ pc' = IF done' THEN "complete" ELSE "parse"

\* InputStream::Read returns n bytes, 0 at the end of the stream
Read(n) ==
    /\ pc = "read"
    /\ LoopStep(n)
    /\ UNCHANGED <<arch, feed, apikey, ctx, result, uri, url, tok, hist>>

\* mutant: the exception is caught and the songs read so far are returned
ReadThrows_Swallowed ==
    /\ pc = "read"
    /\ pc' = "reverse"
    /\ raised' = TRUE
    /\ UNCHANGED <<arch, feed, apikey, ctx, done, nbytes, result, uri, url, tok, ev, nev,
                   completes, tracks, attempts, captures, ends>>

\* InputStream::Read throws
ReadThrows ==
    /\ pc = "read"
    /\ pc' = "failed"
    /\ raised' = TRUE
    /\ UNCHANGED <<arch, feed, apikey, ctx, done, nbytes, result, uri, url, tok, ev, nev,
                   completes, tracks, attempts, captures, ends>>

\* mutant: the loop condition is always true
LoopAgain_NeverEnds ==
    /\ pc' = "read"
    /\ nbytes' = 0

\* the loop condition, evaluated after the call of the loop body returned;
\* nbytes is local to the loop body
LoopAgain ==
    /\ pc' = IF done THEN "reverse" ELSE "read"
    /\ nbytes' = 0

\* Yajl::Handle::Parse returns: the chunk is consumed and no callback
\* cancelled the parse
ParseReturns ==
    /\ pc = "parse"
    /\ rc # 0
    /\ LoopAgain
    /\ UNCHANGED <<arch, feed, apikey, ctx, done, result, uri, url, tok, hist>>

\* Yajl::Handle::Parse throws: the chunk is not JSON
ParseThrows ==
    /\ pc = "parse"
    /\ pc' = "failed"
    /\ raised' = TRUE
    /\ UNCHANGED <<arch, feed, apikey, ctx, done, nbytes, result, uri, url, tok, ev, nev,
                   completes, tracks, attempts, captures, ends>>

\* Yajl::Handle::CompleteParse returns: the document is complete
CompleteParse ==
    /\ pc = "complete"
    /\ docDone
    /\ completes' = completes + 1
    /\ LoopAgain
    /\ UNCHANGED <<arch, feed, apikey, ctx, done, result, uri, url, tok, ev, nev, tracks,
                   raised, attempts, captures, ends>>

\* Yajl::Handle::CompleteParse throws: the document is not complete
CompleteThrows ==
    /\ pc = "complete"
    /\ ~docDone
    /\ completes' = completes + 1
    /\ pc' = "failed"
    /\ raised' = TRUE
    /\ UNCHANGED <<arch, feed, apikey, ctx, done, nbytes, result, uri, url, tok, ev, nev,
                   tracks, attempts, captures, ends>>

RECURSIVE Reverse(_)
Reverse(s) == IF s = <<>> THEN <<>> ELSE Append(Reverse(Tail(s)), Head(s))

\* data.songs.reverse(); return new MemorySongEnumerator(std::move(data.songs))
ReturnSongs ==
    /\ pc = "reverse"
    /\ pc' = "returned"
    /\ songs' = Reverse(songs)
    /\ result' = songs'
    /\ UNCHANGED <<arch, feed, apikey, key, stream_url, duration, title, got_url, done,
                   nbytes, uri, url, tok, hist>>

\* soundcloud_open_uri is about to be called with data and handle as their
\* constructors leave them; nothing is read yet; tag_archive_scan is not
\* called
PluginInit ==
    /\ apikey \in ApiKeys
    /\ key \in Keys
    /\ stream_url = <<>>
    /\ duration \in UninitLong
    /\ title = <<>>
    /\ got_url = 0
    /\ songs = <<>>
    /\ pc = "uri"
    /\ done = FALSE
    /\ nbytes = 0
    /\ result = NoValue
    /\ uri = None
    /\ url = None
    /\ stack = <<>>
    /\ docDone = FALSE
    /\ rc = 1
    /\ ev = [type |-> "none"]
    /\ nev = 0
    /\ completes = 0
    /\ tracks = <<>>
    /\ raised = FALSE
    /\ attempts = 0
    /\ captures = 0
    /\ ends = 0
    /\ pos = 0
    /\ buffer = <<>>
    /\ handle = NewHandle
    /\ a_call = NoCall
    /\ a_end = NoEnd

\* the response body is not looked at byte by byte, the archive is empty
Init ==
    /\ PluginInit
    /\ doc = <<>>
    /\ start = NoStart
    /\ archive = [p \in Paths |-> "absent"]

Next ==
    \/ \E str \in Uris : OpenUri(str)
    \/ OpenReady
    \/ OpenThrows
    \/ \E n \in {0, 1, BufferSize} : Read(n)
    \/ ReadThrows
    \/ ParseReturns
    \/ ParseThrows
    \/ CompleteParse
    \/ CompleteThrows
    \/ ReturnSongs
    \/ \E v \in IntVals : Integer(v)
    \/ \E s \in StringVals : String(s)
    \/ OtherScalar
    \/ StartMap
    \/ \E name \in KeyNames : MapKey(name)
    \/ EndMap
    \/ StartArray
    \/ EndArray

Spec == Init /\ [][Next]_vars

(***************************************************************************)
(* The same program with the progress its one thread makes: a call of the  *)
(* tokenizer returns or throws (a chunk is finite), and the statements     *)
(* between the calls are executed.  Nothing is assumed of the byte source: *)
(* OpenReady and Read may block for ever.  Each of the fair steps moves   *)
(* pc.                                                                     *)
(***************************************************************************)
SpecLive ==
    /\ Spec
    /\ WF_pc(\E str \in Uris : OpenUri(str))
    /\ WF_pc(ParseReturns \/ ParseThrows)
    /\ WF_pc(CompleteParse \/ CompleteThrows)
    /\ WF_pc(ReturnSongs)

(***************************************************************************)
(* The feed loop over the bytes of a document.  Here the tokenizer is run  *)
(* on the bytes it is given: a JSON tokenizer for objects, arrays, strings *)
(* without escapes and integers, without white space, that keeps its state *)
(* (the open containers, what it expects next, the token it is in the      *)
(* middle of) between two calls of Parse and calls the callbacks as the    *)
(* tokens end.  The context is a record with the fields of                 *)
(* SoundCloudJsonData, and the callbacks are functions on it.              *)
(***************************************************************************)
Data ==
    [ key |-> key, stream_url |-> stream_url, duration |-> duration,
      title |-> title, got_url |-> got_url, songs |-> songs ]

\* handle_mapkey
cb_mapkey(d, name) == [d EXCEPT !.key = KeyOf(name)]

\* handle_integer
cb_integer(d, intval) ==
    IF d.key = DURATION THEN [d EXCEPT !.duration = intval] ELSE d

\* handle_string
cb_string(d, stringval) ==
    IF d.key = TITLE THEN [d EXCEPT !.title = stringval]
    ELSE IF d.key = STREAM_URL
    THEN [d EXCEPT !.stream_url = stringval, !.got_url = 1]
    ELSE d

\* handle_start_map
cb_start_map(d) ==
    IF d.got_url > 0 THEN [d EXCEPT !.got_url = @ + 1] ELSE d

\* handle_end_map
cb_end_map(d) ==
    IF d.got_url > 1 THEN [d EXCEPT !.got_url = @ - 1]
    ELSE IF d.got_url = 0 THEN d
    ELSE [d EXCEPT
            !.got_url = 0,
            !.songs = <<Song(d.stream_url \o ClientIdParam \o apikey,
                             d.duration, d.title)>> \o @]

Digits == {"0", "1", "2", "3", "4", "5", "6", "7", "8", "9"}

DigitOf(c) ==
    CASE c = "0" -> 0 [] c = "1" -> 1 [] c = "2" -> 2 [] c = "3" -> 3
      [] c = "4" -> 4 [] c = "5" -> 5 [] c = "6" -> 6 [] c = "7" -> 7
      [] c = "8" -> 8 [] c = "9" -> 9

\* the integer that a sequence of digits after an optional "-" denotes
RECURSIVE NumOf(_, _)
NumOf(txt, acc) ==
    IF txt = <<>> THEN acc
    ELSE NumOf(Tail(txt), 10 * acc + DigitOf(Head(txt)))

IntOf(txt) ==
    IF Head(txt) = "-" THEN 0 - NumOf(Tail(txt), 0) ELSE NumOf(txt, 0)

\* what the tokenizer expects after a value
AfterVal(stk) == IF stk = <<>> THEN "done" ELSE "next"

\* the tokenizer has refused the bytes
Failed(hd) == hd.h.st = "error"

Refuse(hd) == [hd EXCEPT !.h.st = "error"]

\* the integer token in progress ends: the integer callback is called
EndNumber(hd) ==
    IF hd.h.txt = <<"-">> THEN Refuse(hd)
    ELSE [ h |-> [hd.h EXCEPT !.tk = "none", !.txt = <<>>,
                              !.st = AfterVal(hd.h.stk)],
           d |-> cb_integer(hd.d, IntOf(hd.h.txt)) ]

\* one byte outside any token
Punct(hd, c) ==
    LET h == hd.h
        valueNext == h.st \in {"value", "value_or_end"}
        top == IF h.stk = <<>> THEN "none" ELSE h.stk[Len(h.stk)]
        rest == SubSeq(h.stk, 1, Len(h.stk) - 1)
    IN CASE c = "\"" /\ (valueNext \/ h.st \in {"key", "key_or_end"}) ->
              [hd EXCEPT !.h.tk = "str", !.h.txt = <<>>]
         [] c \in Digits \cup {"-"} /\ valueNext ->
              [hd EXCEPT !.h.tk = "num", !.h.txt = <<c>>]
         [] c = "{" /\ valueNext ->
              [ h |-> [h EXCEPT !.stk = Append(@, "map"),
                                !.st = "key_or_end"],
                d |-> cb_start_map(hd.d) ]
         [] c = "[" /\ valueNext ->
              [hd EXCEPT !.h.stk = Append(@, "array"),
                         !.h.st = "value_or_end"]
         [] c = "}" /\ h.st \in {"key_or_end", "next"} /\ top = "map" ->
              [ h |-> [h EXCEPT !.stk = rest, !.st = AfterVal(rest)],
                d |-> cb_end_map(hd.d) ]
         [] c = "]" /\ h.st \in {"value_or_end", "next"} /\ top = "array" ->
              [hd EXCEPT !.h.stk = rest, !.h.st = AfterVal(rest)]
         [] c = ":" /\ h.st = "colon" ->
              [hd EXCEPT !.h.st = "value"]
         [] c = "," /\ h.st = "next" ->
              [hd EXCEPT !.h.st = IF top = "map" THEN "key" ELSE "value"]
         [] OTHER -> Refuse(hd)

\* the tokenizer takes one byte
Byte(hd, c) ==
    IF Failed(hd) THEN hd
    ELSE IF hd.h.tk = "str"
    THEN IF c # "\"" THEN [hd EXCEPT !.h.txt = Append(@, c)]
         ELSE IF hd.h.st \in {"key", "key_or_end"}
         THEN [ h |-> [hd.h EXCEPT !.tk = "none", !.txt = <<>>,
                                   !.st = "colon"],
                d |-> cb_mapkey(hd.d, hd.h.txt) ]
         ELSE [ h |-> [hd.h EXCEPT !.tk = "none", !.txt = <<>>,
                                   !.st = AfterVal(hd.h.stk)],
                d |-> cb_string(hd.d, hd.h.txt) ]
    ELSE IF hd.h.tk = "num"
    THEN IF c \in Digits THEN [hd EXCEPT !.h.txt = Append(@, c)]
         ELSE IF Failed(EndNumber(hd)) THEN Refuse(hd)
         ELSE Punct(EndNumber(hd), c)
    ELSE Punct(hd, c)

\* the bytes of one call, in order, up to the byte that is refused
RECURSIVE Bytes(_, _)
Bytes(hd, bytes) ==
    IF bytes = <<>> THEN hd
    ELSE LET nx == Byte(hd, Head(bytes))
         IN IF Failed(nx) THEN nx ELSE Bytes(nx, Tail(bytes))

\* yajl_parse; seen is the history of all bytes the tokenizer was given
yajl_parse(hd, bytes) ==
    [Bytes(hd, bytes) EXCEPT !.h.seen = hd.h.seen \o bytes]

\* yajl_complete_parse: an integer in progress ends; the document must be
\* complete
yajl_complete_parse(hd) ==
    IF Failed(hd) THEN hd
    ELSE LET e == IF hd.h.tk = "num" THEN EndNumber(hd) ELSE hd
         IN IF e.h.st = "done" /\ e.h.tk = "none" THEN e ELSE Refuse(e)

\* InputStream::Read(buffer, sizeof(buffer)) returns n bytes, the next n of
\* the document: at least one while there are bytes left, at most
\* sizeof(buffer), and 0 at the end
FeedRead(n) ==
    /\ pc = "read"
    /\ n \in 0..(Len(doc) - pos)
    /\ n <= BufferSize
    /\ n = 0 => pos = Len(doc)
    /\ LoopStep(n)
    /\ buffer' = SubSeq(doc, pos + 1, pos + n)
    /\ pos' = pos + n
    /\ UNCHANGED <<arch, doc, handle, start, apikey, ctx, result, uri, url,
                   tok, hist>>

\* the context after a call of the tokenizer
SetData(d) ==
    /\ key' = d.key
    /\ stream_url' = d.stream_url
    /\ duration' = d.duration
    /\ title' = d.title
    /\ got_url' = d.got_url
    /\ songs' = d.songs

\* what Parse(buffer, nbytes) makes of the tokenizer and the context
Parsed == yajl_parse([h |-> handle, d |-> Data], SubSeq(buffer, 1, nbytes))

\* handle.Parse(buffer, nbytes) returns; buffer[] ends with the loop body
FeedParse ==
    /\ pc = "parse"
    /\ ~Failed(Parsed)
    /\ handle' = Parsed.h
    /\ SetData(Parsed.d)
    /\ LoopAgain
    /\ buffer' = <<>>
    /\ UNCHANGED <<arch, doc, pos, start, apikey, done, result, uri, url,
                   tok, hist>>

\* handle.Parse(buffer, nbytes) throws; buffer[] ends with the function
FeedParseThrows ==
    /\ pc = "parse"
    /\ Failed(Parsed)
    /\ handle' = Parsed.h
    /\ SetData(Parsed.d)
    /\ pc' = "failed"
    /\ raised' = TRUE
    /\ buffer' = <<>>
    /\ UNCHANGED <<arch, doc, pos, start, apikey, done, nbytes, result, uri,
                   url, tok, ev, nev, completes, tracks, attempts, captures,
                   ends>>

Completed == yajl_complete_parse([h |-> handle, d |-> Data])

\* handle.CompleteParse() returns
FeedComplete ==
    /\ pc = "complete"
    /\ ~Failed(Completed)
    /\ handle' = Completed.h
    /\ SetData(Completed.d)
    /\ completes' = completes + 1
    /\ LoopAgain
    /\ UNCHANGED <<arch, doc, pos, buffer, start, apikey, done, result, uri,
                   url, tok, ev, nev, tracks, raised, attempts, captures,
                   ends>>

\* handle.CompleteParse() throws
FeedCompleteThrows ==
    /\ pc = "complete"
    /\ Failed(Completed)
    /\ handle' = Completed.h
    /\ SetData(Completed.d)
    /\ completes' = completes + 1
    /\ pc' = "failed"
    /\ raised' = TRUE
    /\ UNCHANGED <<arch, doc, pos, buffer, start, apikey, done, nbytes,
                   result, uri, url, tok, ev, nev, tracks, attempts,
                   captures, ends>>

\* a document is served; the values key and duration have at construction
\* are recorded
InitFeed ==
    /\ PluginInit
    /\ doc \in Docs
    /\ start = [key |-> key, duration |-> duration]
    /\ archive = [p \in Paths |-> "absent"]

NextFeed ==
    \/ \E str \in Uris : OpenUri(str)
    \/ OpenReady
    \/ OpenThrows
    \/ \E n \in 0..MaxDocLen : FeedRead(n)
    \/ ReadThrows
    \/ FeedParse
    \/ FeedParseThrows
    \/ FeedComplete
    \/ FeedCompleteThrows
    \/ ReturnSongs

SpecFeed == InitFeed /\ [][NextFeed]_vars

(***************************************************************************)
(* TagArchive.cxx: tag_archive_scan, both overloads.  How a call ends is a *)
(* value: a return with its value, an exception in flight with its type,   *)
(* or the end of the process.                                              *)
(***************************************************************************)
Return(v) == [kind |-> "return", value |-> v]
Throw(e) == [kind |-> "throw", exc |-> e]
Terminate == [kind |-> "terminate"]

\* ArchiveFile::OpenStream: a stream (named by what it holds), the null
\* pointer (NoValue), or an exception
OpenStream(path_utf8) ==
    CASE archive[path_utf8] = "absent" -> Return(NoValue)
      [] archive[path_utf8] = "unreadable" -> Throw("std::exception")
      [] archive[path_utf8] = "foreign" -> Throw("other")
      [] OTHER -> Return(archive[path_utf8])

\* tag_stream_scan on an opened stream
tag_stream_scan(is) ==
    CASE is = "tagged" -> Return(TRUE)
      [] is = "untagged" -> Return(FALSE)
      [] OTHER -> Throw("std::exception")

\* the try block of the overload with a TagHandler
ScanWithHandler(path_utf8) ==
    LET is == OpenStream(path_utf8)
    IN IF is.kind = "throw" THEN is
       ELSE IF is.value = NoValue THEN Return(FALSE)
       ELSE tag_stream_scan(is.value)

\* the try block of the overload with a TagBuilder:
\* return is && tag_stream_scan(*is, builder)
ScanWithBuilder(path_utf8) ==
    LET is == OpenStream(path_utf8)
    IN IF is.kind = "throw" THEN is
       ELSE IF is.value # NoValue
            THEN tag_stream_scan(is.value)
            ELSE Return(FALSE)

\* mutant: the function has no handler, so noexcept ends the process
TryCatch_NoHandler(body) ==
    IF body.kind = "throw" THEN Terminate ELSE body

\* the function-try-block of a noexcept function:
\* catch (const std::exception &e) { return false; }
TryCatch(body) ==
    IF body.kind # "throw" THEN body
    ELSE IF body.exc = "std::exception" THEN Return(FALSE)
    ELSE Terminate

\* a call can be made while the process runs
CanCall == a_end.kind # "terminate"

\* tag_archive_scan(archive, path_utf8, handler, handler_ctx)
tag_archive_scan_handler(path_utf8) ==
    /\ CanCall
    /\ a_call' = [overload |-> "handler", path |-> path_utf8]
    /\ a_end' = TryCatch(ScanWithHandler(path_utf8))
    /\ UNCHANGED <<archive, feed, apikey, ctx, loop, tok, hist>>

\* tag_archive_scan(archive, path_utf8, builder)
tag_archive_scan_builder(path_utf8) ==
    /\ CanCall
    /\ a_call' = [overload |-> "builder", path |-> path_utf8]
    /\ a_end' = TryCatch(ScanWithBuilder(path_utf8))
    /\ UNCHANGED <<archive, feed, apikey, ctx, loop, tok, hist>>

\* an archive with any entries; the plugin is not running
InitArchive ==
    /\ PluginInit
    /\ key = Key_OTHER
    /\ duration = 0
    /\ doc = <<>>
    /\ start = NoStart
    /\ archive \in [Paths -> EntryKinds]

NextArchive ==
    \/ \E p \in Paths : tag_archive_scan_handler(p)
    \/ \E p \in Paths : tag_archive_scan_builder(p)

SpecArchive == InitArchive /\ [][NextArchive]_vars

(***************************************************************************)
(* Vocabulary of the properties.                                           *)
(***************************************************************************)
\* the credential parameter appended to a stream URL
WithClientId(u) == u \o ClientIdParam \o apikey

\* this step delivers one tokenizer event
EventStep == pc = "parse" /\ nev' = nev + 1

\* this step delivers an object-end event; ev'.frame is the object it closes
EndMapStep == EventStep /\ ev'.type = "end_map"

\* an object that is open around the innermost open one holds a string
\* under its own key named stream_url
InsideTrack ==
    \E i \in 1..(Len(stack) - 1) :
        stack[i].kind = "map" /\ stack[i].xurl # None

\* an object that is open around the innermost open one received a
\* stream-reference string and none of its nested objects has a key
\* classified Duration, Title or StreamReference
InsidePureCapture ==
    \E i \in 1..(Len(stack) - 1) :
        /\ stack[i].kind = "map"
        /\ stack[i].own.url # None
        /\ stack[i].pure

\* the field kind that an exact, case-sensitive comparison with the table
\* gives a key name
ExactKey(name) ==
    IF name = key_str[1] THEN DURATION
    ELSE IF name = key_str[2] THEN TITLE
    ELSE IF name = key_str[3] THEN STREAM_URL
    ELSE Key_OTHER

(***************************************************************************)
(* C1: when the parse call returns, the list holds one record for each     *)
(* closed object that has a string under its own stream_url key, in        *)
(* document order: as many records as such objects, the i-th record with   *)
(* the i-th object's URL.                                                  *)
(***************************************************************************)
C1_OneRecordPerTrackInOrder ==
    pc = "returned" =>
        /\ Len(result) = Len(tracks)
        /\ \A i \in 1..Len(tracks) : result[i].uri = WithClientId(tracks[i])

(***************************************************************************)
(* C3: the end of an object in which no key named stream_url occurred      *)
(* (in the object or in an object nested in it) adds no record.            *)
(***************************************************************************)
C3_NoStreamUrlNoRecord ==
    [][ (EndMapStep /\ ~ev'.frame.hasUrl) => songs' = songs ]_vars

(***************************************************************************)
(* C5: the object-end event received with captureDepth = 1 leaves          *)
(* captureDepth 0 and the pending streamUrl, title and duration cleared.   *)
(***************************************************************************)
C5_ContextResetOnFinalize ==
    [][ (EndMapStep /\ got_url = 1) =>
            /\ got_url' = 0
            /\ stream_url' = <<>>
            /\ title' = <<>>
            /\ duration' = 0 ]_vars

(***************************************************************************)
(* C6: the record pushed when an object closes has duration 0 if no key    *)
(* named duration occurred in the object, and no title if no key named     *)
(* title occurred in it.                                                   *)
(***************************************************************************)
C6_AbsentFieldsDefault ==
    [][ (EndMapStep /\ songs' # songs) =>
            /\ ~ev'.frame.hasDur => Head(songs').duration = 0
            /\ ~ev'.frame.hasTtl => Head(songs').name = <<>> ]_vars

(***************************************************************************)
(* C7: after a map-key event, currentField is the kind of the table entry  *)
(* that equals the key name, and Other if no entry equals it.              *)
(***************************************************************************)
C7_KeyClassifiedExactly ==
    (ev.type = "map_key" /\ stack # <<>>) => key = ExactKey(Top.curKey)

C4_RecordsOnlyOnObjectEnd ==
    [][ songs' # songs =>
          \/ EndMapStep /\ got_url = 1 /\ Tail(songs') = songs
          \/ pc = "reverse" /\ songs' = Reverse(songs) ]_vars

\* a record was pushed by an object-end event, and a later event that is
\* not an object end left it in place
C4_Witness ==
    /\ pc = "parse"
    /\ Len(songs) = 1
    /\ ev.type \in {"map_key", "string", "integer", "start_map"}
    /\ got_url > 0

(***************************************************************************)
(* C8: the URL of the record that an object-end event pushes is the last   *)
(* stream-reference string the closing object received, followed by        *)
(* "?client_id=" and the credential, character for character.              *)
(***************************************************************************)
C8_UrlIsStreamUrlPlusCredential ==
    [][ (EndMapStep /\ songs' # songs) =>
          /\ ev'.frame.own.url # None
          /\ Head(songs').uri =
                ev'.frame.own.url[1]
                    \o <<"?","c","l","i","e","n","t","_","i","d","=">>
                    \o apikey ]_vars

\* a record was pushed for a stream URL that holds a character an encoder
\* would change
C8_Witness ==
    /\ ev.type = "end_map"
    /\ songs # <<>>
    /\ ev.frame.own.url = Some(<<"u","&">>)
    /\ Head(songs).uri = <<"u","&","?","c","l","i","e","n","t","_","i","d","=">> \o apikey

(***************************************************************************)
(* C9: once an exception of the byte source or of the tokenizer has left   *)
(* the feed loop, the call is over: no list is handed to the caller, and   *)
(* nothing more happens.                                                   *)
(***************************************************************************)
C9_FailureReturnsNothing ==
    [][ raised' => (result' = NoValue /\ pc' = "failed") ]_vars

\* the call failed after a record had been pushed
C9_Witness ==
    /\ raised
    /\ pc = "failed"
    /\ songs # <<>>
    /\ result = NoValue

(***************************************************************************)
(* C10: CompleteParse is called at most once, only right after a read of   *)
(* zero bytes, and the loop ends with it; a read of zero bytes is followed *)
(* by CompleteParse and a read of more by Parse; Parse is never called     *)
(* with zero bytes; after CompleteParse there is no read and no Parse; a   *)
(* call that returns a list has called CompleteParse exactly once.         *)
(***************************************************************************)
C10_FeedLoopProtocol ==
    [][ /\ completes' # completes =>
              /\ completes = 0 /\ completes' = 1
              /\ pc = "complete" /\ nbytes = 0
              /\ pc' \in {"reverse", "failed"}
        /\ (pc = "read" /\ ~raised') =>
              /\ nbytes' = 0 => pc' = "complete"
              /\ nbytes' > 0 => pc' = "parse"
        /\ pc' = "parse" => nbytes' > 0
        /\ pc' = "complete" => nbytes' = 0
        /\ completes' >= 1 => pc' \notin {"read", "parse", "complete"}
        /\ pc' \in {"reverse", "returned"} => completes' = 1 ]_vars

\* the call read a document to its end, completed the parse once and
\* returned a record
C10_Witness ==
    /\ pc = "returned"
    /\ completes = 1
    /\ Len(result) = 1

(***************************************************************************)
(* C12: the record that an object-end event pushes has a duration that is  *)
(* not negative, whatever integer the document held under a duration key.  *)
(***************************************************************************)
C12_DurationNonNegative ==
    [][ (EndMapStep /\ songs' # songs) => Head(songs').duration >= 0 ]_vars

(***************************************************************************)
(* C13: a string or integer event that directly follows another string or  *)
(* integer event (no map-key event in between, as for the later elements   *)
(* of an array) changes neither the pending stream URL, title and duration *)
(* nor captureDepth.                                                       *)
(***************************************************************************)
C13_ClassificationConsumed ==
    [][ ( /\ EventStep
          /\ ev.type \in {"string", "integer"}
          /\ ev'.type \in {"string", "integer"} ) =>
            UNCHANGED <<stream_url, title, duration, got_url>> ]_vars

(***************************************************************************)
(* C14: a map-key event changes only currentField; an integer event        *)
(* changes only the pending duration, and only when currentField is        *)
(* Duration; a string event changes nothing when currentField is Duration  *)
(* or Other; an object-start and an object-end event change nothing when   *)
(* captureDepth is 0.                                                      *)
(***************************************************************************)
C14_FrameConditions ==
    [][ EventStep =>
          /\ ev'.type = "map_key" =>
                UNCHANGED <<stream_url, duration, title, got_url, songs>>
          /\ ev'.type = "integer" =>
                /\ UNCHANGED <<key, stream_url, title, got_url, songs>>
                /\ key # DURATION => duration' = duration
          /\ (ev'.type = "string" /\ key \in {DURATION, Key_OTHER}) =>
                UNCHANGED ctx
          /\ (ev'.type \in {"start_map", "end_map"} /\ got_url = 0) =>
                UNCHANGED ctx ]_vars

\* an object that received an integer under a duration key and no stream
\* reference closed while captureDepth was 0, and nothing was recorded
C14_Witness ==
    /\ ev.type = "end_map"
    /\ ev.frame.own.url = None
    /\ ev.frame.own.duration # None
    /\ got_url = 0
    /\ stream_url = <<>>
    /\ songs = <<>>

(***************************************************************************)
(* C18: captureDepth is 0 initially and never negative; it leaves 0 only   *)
(* by a string event received while currentField is StreamReference, which *)
(* makes it 1; it is 0 right after every record is pushed; an object-end   *)
(* event lowers it by at most one and never below 0.                       *)
(***************************************************************************)
C18_CaptureDepth ==
    /\ got_url = 0
    /\ [][ /\ got_url' >= 0
           /\ (got_url = 0 /\ got_url' # 0) =>
                 /\ EventStep
                 /\ ev'.type = "string"
                 /\ key = STREAM_URL
                 /\ got_url' = 1
           /\ (EventStep /\ songs' # songs) => got_url' = 0
           /\ EndMapStep =>
                 /\ got_url' <= got_url
                 /\ got_url' >= got_url - 1 ]_vars

\* the end of a nested object lowered captureDepth from 2 to 1
C18_Witness ==
    /\ ev.type = "end_map"
    /\ got_url = 1
    /\ ev.frame.own.url = None

(***************************************************************************)
(* C15: every callback reports "continue" (returns 1) in every state of    *)
(* the context, so no event ends the parse; and what the call returns is   *)
(* the list of the records pushed by object ends, so a pending record      *)
(* whose object end never came is not in it.                               *)
(***************************************************************************)
C15_HandlersContinue ==
    [][ /\ EventStep => (rc' = 1 /\ pc' = "parse" /\ ~raised')
        /\ (pc = "parse" /\ pc' = "failed") => rc = 1
        /\ pc = "reverse" => result' = Reverse(songs) ]_vars

\* a stream reference was captured, its object end never came, the
\* document ended, and the call returned a list without a record for it
C15_Witness ==
    /\ pc = "returned"
    /\ got_url = 1
    /\ stream_url # <<>>
    /\ result = <<>>

\* the request is of one of the five kinds
Recognized(str) ==
    \E k \in 1..Len(KindPrefixes) : HasPrefix(str, KindPrefixes[k])

(***************************************************************************)
(* C16: a request of none of the kinds track/, playlist/, user/, search/,  *)
(* url/ returns the null pointer: soundcloud_parse_json is not called, the *)
(* byte source is not opened and no event is delivered, and the call is    *)
(* over.  A request of one of the five kinds has a URL, and                *)
(* soundcloud_parse_json is called for it exactly once.                    *)
(***************************************************************************)
C16_UnknownKindNoParse ==
    [][ /\ pc = "uri" =>
              IF Recognized(uri'[1])
              THEN pc' = "open" /\ url' # None
              ELSE pc' = "null" /\ url' = None
        /\ pc' = "null" =>
              /\ attempts' = 0
              /\ nev' = 0
              /\ stack' = <<>>
              /\ result' = NoValue
              /\ ~raised'
        /\ pc # "null"
        /\ attempts' = IF pc' \in {"uri", "open", "null"} THEN 0 ELSE 1 ]_vars

\* a request in the plural, "tracks/7", is of no kind: the call returned
\* the null pointer, nothing was opened and no event was delivered
C16_Witness ==
    /\ pc = "null"
    /\ uri = Some(<<"t","r","a","c","k","s","/","7">>)
    /\ url = None
    /\ attempts = 0
    /\ nev = 0
    /\ result = NoValue

(***************************************************************************)
(* C19: the number of records is at most the number of object-end events,  *)
(* and the records together with the capture still pending are at most as  *)
(* many as the strings received while currentField was StreamReference: a  *)
(* record needs a capture of its own.                                      *)
(***************************************************************************)
C19_RecordsBounded ==
    /\ Len(songs) <= ends
    /\ Len(songs) + (IF got_url > 0 THEN 1 ELSE 0) <= captures

\* two stream-reference strings were received in one object, and its end
\* pushed one record
C19_Witness ==
    /\ ev.type = "end_map"
    /\ captures = 2
    /\ ends = 1
    /\ got_url = 0
    /\ Len(songs) = 1

(***************************************************************************)
(* C20: a call of tag_archive_scan, of either overload, never ends with an *)
(* exception in flight.  It returns false when the archive has no stream   *)
(* for the path (null pointer) and when OpenStream or tag_stream_scan      *)
(* throws a std::exception; otherwise it returns what tag_stream_scan      *)
(* returns for the opened stream.  (An exception of another type ends the  *)
(* process, the function being noexcept.)                                  *)
(***************************************************************************)
C20_ArchiveScanNeverThrows ==
    a_call # NoCall =>
        LET entry == archive[a_call.path] IN
        /\ a_end.kind \in {"return", "terminate"}
        /\ a_end.kind = "terminate" <=> entry = "foreign"
        /\ entry \in {"absent", "unreadable", "damaged"} =>
              a_end = Return(FALSE)
        /\ entry \in {"tagged", "untagged"} =>
              a_end = tag_stream_scan(entry)

\* the overload with a TagBuilder was called for an entry whose scan throws,
\* and returned false
C20_Witness ==
    /\ a_call.overload = "builder"
    /\ archive[a_call.path] = "damaged"
    /\ a_end = Return(FALSE)

(***************************************************************************)
(* C17: once the byte source has returned zero bytes or raised a failure,  *)
(* the call ends: it returns, after the completion call, or it fails.  And *)
(* at any time the thread is later again at the byte source (opening it or *)
(* reading from it) or the call has ended: the loop runs for ever only if  *)
(* the byte source keeps returning data or blocks for ever.                *)
(***************************************************************************)
C17_FeedLoopTerminates ==
    /\ (done \/ raised) ~> (pc \in {"returned", "failed"})
    /\ []<>(pc \in {"open", "read", "null", "returned", "failed"})

\* the byte source returned zero bytes inside an open object, the completion
\* call failed and the call ended with that failure
C17_Witness ==
    /\ done
    /\ stack # <<>>
    /\ completes = 1
    /\ pc = "failed"

\* values that key and duration may have at construction
Garbage == [key : Keys, duration : UninitLong]

\* what a call returns that is served the document in one chunk (one Read of
\* all bytes, one Parse, then the Read of zero bytes and CompleteParse),
\* when key and duration have the values of g at construction: Some(list),
\* or None when the tokenizer throws
SingleChunk(document, g) ==
    LET d0 == [ key |-> g.key, stream_url |-> <<>>,
                duration |-> g.duration, title |-> <<>>, got_url |-> 0,
                songs |-> <<>> ]
        p == yajl_parse([h |-> NewHandle, d |-> d0], document)
        c == yajl_complete_parse(p)
    IN IF Failed(c) THEN None ELSE Some(Reverse(c.d.songs))

\* the call has ended by itself: it returned, or the tokenizer threw
FeedEnded == pc = "returned" \/ (pc = "failed" /\ Failed([h |-> handle]))

\* what the call gave its caller
FeedOutcome == IF pc = "returned" THEN Some(result) ELSE None

(***************************************************************************)
(* C11, as claimed: however the bytes of the document were split into      *)
(* chunks, the tokenizer was given the bytes of the document in order,     *)
(* each once, and the call gives its caller what any call gives that is    *)
(* served the same document in a single chunk.                             *)
(***************************************************************************)
C11_ChunkingInvisible ==
    FeedEnded =>
        /\ handle.seen = SubSeq(doc, 1, pos)
        /\ \A g \in Garbage : FeedOutcome = SingleChunk(doc, g)

(***************************************************************************)
(* Companion of C11: the same, for a single-chunk call that starts with    *)
(* the same values of key and duration as this one; and at every moment    *)
(* the tokenizer has been given the bytes read so far, except the chunk    *)
(* that is in the buffer.                                                  *)
(***************************************************************************)
FeedSameStart ==
    /\ handle.seen = SubSeq(doc, 1, pos - Len(buffer))
    /\ pc \in {"reverse", "returned"} => handle.seen = doc
    /\ FeedEnded => FeedOutcome = SingleChunk(doc, start)

====
